---- MODULE Spec2Model ----
(***************************************************************************)
(* Model of scripts/sonic.js: the staking bot's retry wrapper (withRetry), *)
(* the two actions it wraps (supplyWS, withdrawWS), the cycle loop of      *)
(* main, the cycle-count prompt and the SIGINT handler.                    *)
(*                                                                         *)
(* Every action is one turn of the JavaScript event loop: the code that    *)
(* runs, without interruption, from the settling of one awaited promise to *)
(* the next await (or to process.exit).  pc names the await at which the   *)
(* program is suspended.                                                   *)
(***************************************************************************)
EXTENDS Integers, Sequences, FiniteSets, TLC

VARIABLES
    hasKey,      \* process.env.PRIVATE_KEY is set                (line 29)
    pc,          \* the await the program is suspended at
    exitCode,    \* <<>> while the process runs, <<code>> once it has exited
    interrupted, \* the SIGINT handler has run                    (line 259)
    answer,      \* the line typed at the prompt, as characters   (line 223)
    cycleCount,  \* main's cycleCount                             (line 222)
    i,           \* main's loop variable                          (line 228)
    attempts,    \* withRetry's attempts                          (line 122)
    maxRetries,  \* withRetry's maxRetries parameter              (line 121)
    timer,       \* milliseconds of the pending setTimeout, 0 if none (66)
    calls,       \* history: invocations of operation() by the current withRetry call
    waits,       \* history: backoff delays of the current withRetry call, in order
    lastError,   \* history: the error raised by the latest failed attempt of the current withRetry call
    result,      \* history: how the latest withRetry call ended
    opLog,       \* history (retry harness): outcome of each attempt, in order
    outcomes,    \* history: the per-cycle reports printed by main (lines 238, 240)
    lastReport,  \* history: cycle and reason of the latest "Cycle i failed" line
    staked,      \* history: cycles whose stake action was invoked
    unstaked,    \* history: cycles whose unstake action was invoked
    lastSettled, \* history: the latest action attempt that completed
    inflight,    \* history: the action attempts invoked and not yet settled
    lastNote,    \* history: the latest retry notification (line 131) or uncaught error
    succeeded,   \* history: successful attempts of each action in the current cycle
    depositsSent \* history: deposits sent by the supplyWS call in progress, 0 when none is

vars == <<hasKey, pc, exitCode, interrupted, answer, cycleCount, i, attempts,
          maxRetries, timer, calls, waits, lastError, result, opLog, outcomes,
          lastReport, staked, unstaked, lastSettled, inflight, lastNote,
          succeeded, depositsSent>>

\* ---------------------------------------------------------------- bounds

\* Largest cycle count the prompt's answer may ask for.
MaxCycles == 5

\* Largest maxRetries the retry harness passes to withRetry.
MaxPolicy == 4

\* ------------------------------------------------------------- constants

MAX_RETRIES == 3

\* getRandomDelay's minDelay and maxDelay, in milliseconds.
minDelay == 1 * 60 * 1000
maxDelay == 3 * 60 * 1000

\* ------------------------------------------------------- pure functions

RECURSIVE Pow2(_)
Pow2(n) == IF n = 0 THEN 1 ELSE 2 * Pow2(n - 1)

\* A sampler that adds maxDelay where minDelay is meant.
GetRandomDelay_AddsMax(r) ==
    LET span == maxDelay - minDelay + 1
        num  == r[1]
        den  == r[2]
    IN  num * (span \div den) + ((num * (span % den)) \div den) + maxDelay

\* Math.floor(r * (maxDelay - minDelay + 1) + minDelay) for r = num/den in
\* [0, 1), computed without leaving 32-bit integers.
GetRandomDelay(r) ==
    LET span == maxDelay - minDelay + 1
        num  == r[1]
        den  == r[2]
    IN  num * (span \div den) + ((num * (span % den)) \div den) + minDelay

\* Values Math.random() may return, as fractions num/den in [0, 1): the
\* smallest, a middle one and the largest one distinguishable by getRandomDelay.
RandomSamples ==
    LET span == maxDelay - minDelay + 1
    IN  {<<0, 1>>, <<1, 2>>, <<span - 1, span>>}

\* The characters an answer is made of: a sign, a letter, and decimal digits.
DigitChars == <<"0", "1", "2", "3", "4", "5", "6", "7", "8", "9">>

IsDigit(c) == \E k \in 1..Len(DigitChars) : DigitChars[k] = c

DigitVal(c) == (CHOOSE k \in 1..Len(DigitChars) : DigitChars[k] = c) - 1

\* parseInt's result: [nan |-> TRUE] or [nan |-> FALSE, val |-> n].
NaN == [nan |-> TRUE, val |-> 0]

RECURSIVE DigitPrefix(_, _, _)
\* Value of the longest prefix of digits of s, acc being the value so far and
\* seen telling whether a digit was read.
DigitPrefix(s, acc, seen) ==
    IF s = <<>> \/ ~IsDigit(Head(s))
    THEN IF seen THEN [nan |-> FALSE, val |-> acc] ELSE NaN
    ELSE DigitPrefix(Tail(s), 10 * acc + DigitVal(Head(s)), TRUE)

RECURSIVE HexPrefix(_, _, _)
\* The same in radix 16; the alphabet holds no hexadecimal letter.
HexPrefix(s, acc, seen) ==
    IF s = <<>> \/ ~IsDigit(Head(s))
    THEN IF seen THEN [nan |-> FALSE, val |-> acc] ELSE NaN
    ELSE HexPrefix(Tail(s), 16 * acc + DigitVal(Head(s)), TRUE)

\* parseInt(s) with no radix: an optional sign, a 0x prefix selecting radix
\* 16, then the longest prefix of digits; NaN when there is none.
ParseInt(s) ==
    LET neg  == s # <<>> /\ Head(s) = "-"
        body == IF neg THEN Tail(s) ELSE s
        hex  == Len(body) >= 2 /\ body[1] = "0" /\ body[2] = "x"
        mag  == IF hex THEN HexPrefix(Tail(Tail(body)), 0, FALSE)
                       ELSE DigitPrefix(body, 0, FALSE)
    IN  IF mag.nan THEN NaN
        ELSE [nan |-> FALSE, val |-> IF neg THEN 0 - mag.val ELSE mag.val]

\* Number(answer) || 1: a count that rejects trailing characters.
ParseCycleCount_WholeString(s) ==
    LET p == ParseInt(s)
        q == IF s # <<>> /\ ~IsDigit(s[Len(s)]) THEN NaN ELSE p
    IN  IF q.nan \/ q.val = 0 THEN 1 ELSE q.val

\* parseInt(answer) || 1: NaN and 0 are falsy.
ParseCycleCount(s) ==
    LET p == ParseInt(s)
    IN  IF p.nan \/ p.val = 0 THEN 1 ELSE p.val

\* A withRetry whose catch tests attempts > maxRetries: one attempt too many.
RetryCatch_LateRethrow(att, max) ==
    [attempts  |-> att + 1,
     rethrow   |-> att + 1 > max,
     delayTime |-> Pow2(att + 1) * 1000]

\* A withRetry that computes the delay before counting the attempt.
RetryCatch_DelayBeforeCount(att, max) ==
    [attempts  |-> att + 1,
     rethrow   |-> att + 1 >= max,
     delayTime |-> Pow2(att) * 1000]

\* withRetry's catch block, for an attempt that failed when `attempts` was att.
RetryCatch(att, max) ==
    [attempts  |-> att + 1,
     rethrow   |-> att + 1 >= max,
     delayTime |-> Pow2(att + 1) * 1000]

\* while (attempts < maxRetries)
RetryLoopGuard(att, max) == att < max

\* ------------------------------------------------------------ the errors

\* An error object: its message, and (history) the attempt that raised it.
MkError(msg) == [message |-> msg, attempt |-> calls]

NoError == [message |-> "", attempt |-> 0]

NoResult == [kind |-> "pending", error |-> NoError, attempt |-> 0]

NoAttempt == [action |-> "none", cycle |-> 0, ok |-> FALSE]

NoReport == [cycle |-> 0, reason |-> ""]

NoNote == [kind |-> "none", attempt |-> 0, total |-> 0, seconds |-> 0]

\* Line 131: "Retrying in ${delayTime/1000}s... (${attempts}/${maxRetries})".
RetryNote(c, max) ==
    [kind |-> "retry", attempt |-> c.attempts, total |-> max,
     seconds |-> c.delayTime \div 1000]

\* What node prints when an exception escapes the module's top level.
UncaughtNote == [kind |-> "uncaught", attempt |-> 0, total |-> 0, seconds |-> 0]

NoneSucceeded == [stake |-> 0, unstake |-> 0]

\* An invocation of operation(): which action, of which cycle, which attempt.
Attempt(action, cycle, n) == [action |-> action, cycle |-> cycle, attempt |-> n]

\* What can reject before supplyWS has sent its deposit: checkApproval,
\* checkBalances or the deposit call itself (a provider error), or one of the
\* two balance checks.
StakePreSendErrors ==
    {"network error", "Insufficient wS balance", "Insufficient ETH for gas"}

\* What can reject before withdrawWS has sent its withdrawal.
UnstakePreSendErrors == {"network error"}

\* What can reject once a transaction is sent: tx.wait() itself, or a
\* receipt with status 0.
PostSendErrors == {"network error", "Transaction reverted"}

\* --------------------------------------------------------- the answers

AnswerChars ==
    {"-", "x"} \cup {DigitChars[k + 1] : k \in 0..MaxCycles}

\* The lines the user may type: up to two characters, asking for no more
\* than MaxCycles cycles.
Answers ==
    LET all == {<<>>} \cup {<<c>> : c \in AnswerChars}
                      \cup {<<c, d>> : c \in AnswerChars, d \in AnswerChars}
    IN  {a \in all : ParseCycleCount(a) <= MaxCycles}

\* ----------------------------------------------------------------- Init

Init ==
    /\ hasKey \in BOOLEAN
    /\ pc = "load"
    /\ exitCode = <<>>
    /\ interrupted = FALSE
    /\ answer = <<>>
    /\ cycleCount = 0
    /\ i = 0
    /\ attempts = 0
    /\ maxRetries = MAX_RETRIES
    /\ timer = 0
    /\ calls = 0
    /\ waits = <<>>
    /\ lastError = NoError
    /\ result = NoResult
    /\ opLog = <<>>
    /\ outcomes = <<>>
    /\ lastReport = NoReport
    /\ staked = {}
    /\ unstaked = {}
    /\ lastSettled = NoAttempt
    /\ inflight = {}
    /\ lastNote = NoNote
    /\ succeeded = NoneSucceeded
    /\ depositsSent = 0

Running == exitCode = <<>>

\* ------------------------------------------------- pieces of main's loop

\* process.exit(code)
ProcessExit(code) == exitCode' = <<code>>

\* A loop that sleeps after every cycle, the last one included.
EndOfIteration_AlwaysWaits ==
    /\ pc' = "cycle_wait"
    /\ \E r \in RandomSamples : timer' = GetRandomDelay(r)
    /\ UNCHANGED exitCode

\* Lines 243-256: after a cycle's try/catch, wait before the next cycle or
\* leave the loop, print "All done" and exit from the finally block.
EndOfIteration ==
    IF i < cycleCount
    THEN /\ pc' = "cycle_wait"
         /\ \E r \in RandomSamples : timer' = GetRandomDelay(r)
         /\ UNCHANGED exitCode
    ELSE /\ pc' = "done"
         /\ timer' = 0
         /\ ProcessExit(0)

\* A do-while loop: the body runs before the loop condition is tested.
StartCycle_BodyFirst(n, count) ==
    /\ i' = n
    /\ timer' = 0
    /\ attempts' = 0
    /\ maxRetries' = MAX_RETRIES
    /\ pc' = "stake_prep"
    /\ calls' = 1
    /\ staked' = staked \cup {n}
    /\ inflight' = inflight \cup {Attempt("stake", n, 1)}
    /\ waits' = <<>>
    /\ lastError' = NoError
    /\ lastNote' = NoNote
    /\ succeeded' = NoneSucceeded
    /\ depositsSent' = 0
    /\ result' = NoResult
    /\ UNCHANGED exitCode

\* Lines 228-231 and 121-125 for loop value n: test the loop condition, then
\* call supplyWS(n), whose withRetry invokes the operation for the first time;
\* or leave the loop and exit (lines 250-256).
\* A loop body that calls withRetry(supplyWS) without awaiting it and goes on
\* to the delay between the actions.
StartCycle_NoAwait(n, count) ==
    /\ i' = n
    /\ IF n <= count
       THEN /\ attempts' = 0
            /\ maxRetries' = MAX_RETRIES
            /\ pc' = "action_wait"
            /\ \E r \in RandomSamples : timer' = GetRandomDelay(r)
            /\ calls' = 1
            /\ staked' = staked \cup {n}
            /\ inflight' = inflight \cup {Attempt("stake", n, 1)}
            /\ waits' = <<>>
            /\ lastError' = NoError
            /\ lastNote' = NoNote
            /\ succeeded' = NoneSucceeded
            /\ depositsSent' = 0
            /\ result' = NoResult
            /\ UNCHANGED exitCode
       ELSE /\ pc' = "done"
            /\ timer' = 0
            /\ ProcessExit(0)
            /\ UNCHANGED <<attempts, maxRetries, calls, waits, lastError,
                           result, staked, inflight, lastNote, succeeded,
                           depositsSent>>

StartCycle(n, count) ==
    /\ i' = n
    /\ timer' = 0
    /\ IF n <= count
       THEN /\ attempts' = 0
            /\ maxRetries' = MAX_RETRIES
            /\ IF RetryLoopGuard(0, MAX_RETRIES)
               THEN /\ pc' = "stake_prep"
                    /\ calls' = 1
                    /\ staked' = staked \cup {n}
                    /\ inflight' = inflight \cup {Attempt("stake", n, 1)}
               ELSE /\ pc' = "action_wait"
                    /\ calls' = 0
                    /\ UNCHANGED <<staked, inflight>>
            /\ waits' = <<>>
            /\ lastError' = NoError
            /\ lastNote' = NoNote
            /\ succeeded' = NoneSucceeded
            /\ depositsSent' = 0
            /\ result' = NoResult
            /\ UNCHANGED exitCode
       ELSE /\ pc' = "done"
            /\ ProcessExit(0)
            /\ UNCHANGED <<attempts, maxRetries, calls, waits, lastError,
                           result, staked, inflight, lastNote, succeeded,
                           depositsSent>>

\* A loop without its inner try/catch: the error reaches main's outer catch
\* (line 251) and the finally block exits.
CycleFailed_Aborts(e) ==
    /\ outcomes' = Append(outcomes, [cycle |-> i, tag |-> "Failed"])
    /\ lastReport' = [cycle |-> i, reason |-> e.message]
    /\ pc' = "done"
    /\ timer' = 0
    /\ ProcessExit(0)

\* A catch block wrapped around supplyWS alone: after the report the cycle
\* goes on to its delay and its withdrawal.
CycleFailed_FallsThrough(e) ==
    /\ outcomes' = Append(outcomes, [cycle |-> i, tag |-> "Failed"])
    /\ lastReport' = [cycle |-> i, reason |-> e.message]
    /\ pc' = "action_wait"
    /\ \E r \in RandomSamples : timer' = GetRandomDelay(r)
    /\ UNCHANGED exitCode

\* Line 240 followed by lines 243-256: the cycle's catch block.
\* A catch block that swallows the error without printing it.
CycleFailed_Silent(e) ==
    /\ outcomes' = Append(outcomes, [cycle |-> i, tag |-> "Failed"])
    /\ UNCHANGED lastReport
    /\ EndOfIteration

CycleFailed(e) ==
    /\ outcomes' = Append(outcomes, [cycle |-> i, tag |-> "Failed"])
    /\ lastReport' = [cycle |-> i, reason |-> e.message]
    /\ EndOfIteration

\* Line 238 followed by lines 243-256.
CycleCompleted ==
    /\ outcomes' = Append(outcomes, [cycle |-> i, tag |-> "Success"])
    /\ UNCHANGED lastReport
    /\ EndOfIteration

\* ----------------------------------------------- withRetry inside main

\* Lines 126-133 and main's catch: the attempt of `action` in flight raised e.
\* Either withRetry rethrows e, which main's catch reports, or it logs the
\* retry and sleeps; `backoff` names that sleep.
AttemptFailed(action, backoff, e) ==
    LET c == RetryCatch(attempts, maxRetries)
    IN  /\ attempts' = c.attempts
        /\ lastError' = e
        /\ lastSettled' = [action |-> action, cycle |-> i, ok |-> FALSE]
        /\ inflight' = inflight \ {Attempt(action, i, calls)}
        /\ IF c.rethrow
           THEN /\ result' = [kind |-> "throw", error |-> e, attempt |-> calls]
                /\ CycleFailed(e)
                /\ depositsSent' = 0
                /\ UNCHANGED <<waits, lastNote>>
           ELSE /\ pc' = backoff
                /\ lastNote' = RetryNote(c, maxRetries)
                /\ timer' = c.delayTime
                /\ waits' = Append(waits, c.delayTime)
                /\ UNCHANGED <<result, outcomes, lastReport, exitCode,
                               depositsSent>>
        /\ UNCHANGED <<hasKey, interrupted, answer, cycleCount, i, maxRetries,
                       calls, opLog, staked, unstaked, succeeded>>

\* "Completed" printed right after supplyWS instead of after withdrawWS.
StakeReturned_ReportsEarly(attempt) ==
    /\ result' = [kind |-> "return", error |-> NoError, attempt |-> attempt]
    /\ pc' = "action_wait"
    /\ \E r \in RandomSamples : timer' = GetRandomDelay(r)
    /\ outcomes' = Append(outcomes, [cycle |-> i, tag |-> "Success"])
    /\ UNCHANGED <<lastReport, exitCode>>

\* Lines 231-235: supplyWS returned; sample the delay and sleep.
\* A retry loop that does not return on success and calls the operation again.
StakeReturned_InvokesAgain(attempt) ==
    /\ result' = [kind |-> "return", error |-> NoError, attempt |-> attempt]
    /\ pc' = "stake_prep"
    /\ timer' = 0
    /\ UNCHANGED <<outcomes, lastReport, exitCode>>

StakeReturned(attempt) ==
    /\ result' = [kind |-> "return", error |-> NoError, attempt |-> attempt]
    /\ pc' = "action_wait"
    /\ \E r \in RandomSamples : timer' = GetRandomDelay(r)
    /\ UNCHANGED <<outcomes, lastReport, exitCode>>

\* Lines 237-238, then 243-256: withdrawWS returned.
UnstakeReturned(attempt) ==
    /\ result' = [kind |-> "return", error |-> NoError, attempt |-> attempt]
    /\ CycleCompleted

\* ------------------------------------------------------------- actions

\* Lines 28-29 with PRIVATE_KEY set: the wallet is built, main() runs to the
\* prompt (lines 219-223).
LoadOk ==
    /\ Running /\ pc = "load" /\ hasKey
    /\ pc' = "prompt"
    /\ UNCHANGED <<hasKey, exitCode, interrupted, answer, cycleCount, i,
                   attempts, maxRetries, timer, calls, waits, lastError,
                   result, opLog, outcomes, lastReport, staked, unstaked,
                   lastSettled>>
    /\ UNCHANGED <<inflight, lastNote, succeeded, depositsSent>>

\* A wallet built lazily: without PRIVATE_KEY the module still loads and main
\* runs to the prompt.
LoadThrows_DefersFailure ==
    /\ Running /\ pc = "load" /\ ~hasKey
    /\ pc' = "prompt"
    /\ UNCHANGED <<hasKey, exitCode, interrupted, answer, cycleCount, i,
                   attempts, maxRetries, timer, calls, waits, lastError,
                   result, opLog, outcomes, lastReport, staked, unstaked,
                   lastSettled, inflight, lastNote, succeeded, depositsSent>>

\* Line 29 with PRIVATE_KEY unset: new ethers.Wallet(undefined) throws while
\* the module loads, outside any try; node prints the error and exits 1.
LoadThrows ==
    /\ Running /\ pc = "load" /\ ~hasKey
    /\ ProcessExit(1)
    /\ UNCHANGED <<hasKey, pc, interrupted, answer, cycleCount, i, attempts,
                   maxRetries, timer, calls, waits, lastError, result, opLog,
                   outcomes, lastReport, staked, unstaked, lastSettled>>
    /\ lastNote' = UncaughtNote
    /\ UNCHANGED <<inflight, succeeded, depositsSent>>

\* Lines 223-231: the user answers the prompt; the loop starts.
Answer ==
    /\ Running /\ pc = "prompt"
    /\ \E a \in Answers :
          /\ answer' = a
          /\ cycleCount' = ParseCycleCount(a)
          /\ StartCycle(1, ParseCycleCount(a))
    /\ UNCHANGED <<hasKey, interrupted, opLog, outcomes, lastReport,
                   unstaked, lastSettled>>

\* Lines 144-171 reject: an attempt of supplyWS fails before the deposit is sent.
StakePrepFails ==
    /\ Running /\ pc = "stake_prep"
    /\ \E m \in StakePreSendErrors :
          AttemptFailed("stake", "stake_backoff", MkError(m))

\* Lines 161-174: the deposit is sent; the attempt awaits the receipt.
StakeSends ==
    /\ Running /\ pc = "stake_prep"
    /\ pc' = "stake_sent"
    /\ UNCHANGED <<hasKey, exitCode, interrupted, answer, cycleCount, i,
                   attempts, maxRetries, timer, calls, waits, lastError,
                   result, opLog, outcomes, lastReport, staked, unstaked,
                   lastSettled>>
    /\ depositsSent' = depositsSent + 1
    /\ UNCHANGED <<inflight, lastNote, succeeded>>

\* Lines 174-178 reject: tx.wait() fails or the receipt has status 0.
StakeReceiptFails ==
    /\ Running /\ pc = "stake_sent"
    /\ \E m \in PostSendErrors :
          AttemptFailed("stake", "stake_backoff", MkError(m))

\* Lines 174-181, 125, 231-235: the deposit is mined, supplyWS returns.
StakeReceiptOk ==
    /\ Running /\ pc = "stake_sent"
    /\ lastSettled' = [action |-> "stake", cycle |-> i, ok |-> TRUE]
    /\ StakeReturned(calls)
    /\ UNCHANGED <<hasKey, interrupted, answer, cycleCount, i, attempts,
                   maxRetries, calls, waits, lastError, opLog, staked,
                   unstaked>>
    /\ inflight' = inflight \ {Attempt("stake", i, calls)}
    /\ succeeded' = [succeeded EXCEPT !.stake = @ + 1]
    /\ depositsSent' = 0
    /\ UNCHANGED lastNote

\* Lines 132, 123-125 in supplyWS: the backoff elapsed, the operation is
\* invoked again.
StakeBackoffDone ==
    /\ Running /\ pc = "stake_backoff"
    /\ IF RetryLoopGuard(attempts, maxRetries)
       THEN /\ pc' = "stake_prep"
            /\ calls' = calls + 1
            /\ timer' = 0
            /\ inflight' = inflight \cup {Attempt("stake", i, calls + 1)}
            /\ UNCHANGED <<result, outcomes, lastReport, exitCode,
                           depositsSent>>
       ELSE /\ StakeReturned(0)
            /\ depositsSent' = 0
            /\ UNCHANGED <<calls, inflight>>
    /\ UNCHANGED <<lastNote, succeeded>>
    /\ UNCHANGED <<hasKey, interrupted, answer, cycleCount, i, attempts,
                   maxRetries, waits, lastError, opLog, staked, unstaked,
                   lastSettled>>

\* Lines 235-237, 121-125, 187-191: the delay elapsed; withdrawWS is called
\* and its withRetry invokes the operation for the first time.
ActionWaitDone ==
    /\ Running /\ pc = "action_wait"
    /\ attempts' = 0
    /\ maxRetries' = MAX_RETRIES
    /\ waits' = <<>>
    /\ lastError' = NoError
    /\ IF RetryLoopGuard(0, MAX_RETRIES)
       THEN /\ pc' = "unstake_prep"
            /\ calls' = 1
            /\ timer' = 0
            /\ result' = NoResult
            /\ unstaked' = unstaked \cup {i}
            /\ inflight' = inflight \cup {Attempt("unstake", i, 1)}
            /\ UNCHANGED <<outcomes, lastReport, exitCode>>
       ELSE /\ calls' = 0
            /\ UnstakeReturned(0)
            /\ UNCHANGED <<unstaked, inflight>>
    /\ lastNote' = NoNote
    /\ UNCHANGED <<succeeded, depositsSent>>
    /\ UNCHANGED <<hasKey, interrupted, answer, cycleCount, i, opLog,
                   staked, lastSettled>>

\* Lines 189-200 reject: an attempt of withdrawWS fails before its
\* transaction is sent.
UnstakePrepFails ==
    /\ Running /\ pc = "unstake_prep"
    /\ \E m \in UnstakePreSendErrors :
          AttemptFailed("unstake", "unstake_backoff", MkError(m))

\* Lines 191-203: the withdrawal is sent; the attempt awaits the receipt.
UnstakeSends ==
    /\ Running /\ pc = "unstake_prep"
    /\ pc' = "unstake_sent"
    /\ UNCHANGED <<hasKey, exitCode, interrupted, answer, cycleCount, i,
                   attempts, maxRetries, timer, calls, waits, lastError,
                   result, opLog, outcomes, lastReport, staked, unstaked,
                   lastSettled>>
    /\ UNCHANGED <<inflight, lastNote, succeeded, depositsSent>>

\* Lines 203-207 reject.
UnstakeReceiptFails ==
    /\ Running /\ pc = "unstake_sent"
    /\ \E m \in PostSendErrors :
          AttemptFailed("unstake", "unstake_backoff", MkError(m))

\* Lines 203-210, 125, 237-238, 243-256: the withdrawal is mined, the cycle
\* is reported complete.
UnstakeReceiptOk ==
    /\ Running /\ pc = "unstake_sent"
    /\ lastSettled' = [action |-> "unstake", cycle |-> i, ok |-> TRUE]
    /\ UnstakeReturned(calls)
    /\ UNCHANGED <<hasKey, interrupted, answer, cycleCount, i, attempts,
                   maxRetries, calls, waits, lastError, opLog, staked,
                   unstaked>>
    /\ inflight' = inflight \ {Attempt("unstake", i, calls)}
    /\ succeeded' = [succeeded EXCEPT !.unstake = @ + 1]
    /\ UNCHANGED <<lastNote, depositsSent>>

\* Lines 132, 123-125 in withdrawWS.
UnstakeBackoffDone ==
    /\ Running /\ pc = "unstake_backoff"
    /\ IF RetryLoopGuard(attempts, maxRetries)
       THEN /\ pc' = "unstake_prep"
            /\ calls' = calls + 1
            /\ timer' = 0
            /\ inflight' = inflight \cup {Attempt("unstake", i, calls + 1)}
            /\ UNCHANGED <<result, outcomes, lastReport, exitCode>>
       ELSE /\ UnstakeReturned(0)
            /\ UNCHANGED <<calls, inflight>>
    /\ UNCHANGED <<lastNote, succeeded, depositsSent>>
    /\ UNCHANGED <<hasKey, interrupted, answer, cycleCount, i, attempts,
                   maxRetries, waits, lastError, opLog, staked, unstaked,
                   lastSettled>>

\* Lines 246, 228-231: the inter-cycle delay elapsed; i++ and the next cycle.
CycleWaitDone ==
    /\ Running /\ pc = "cycle_wait"
    /\ StartCycle(i + 1, cycleCount)
    /\ UNCHANGED <<hasKey, interrupted, answer, cycleCount, opLog, outcomes,
                   lastReport, unstaked, lastSettled>>

\* A handler that prints and closes the prompt but does not exit.
OnSigint_NoExit ==
    /\ Running /\ pc # "load" /\ ~interrupted
    /\ interrupted' = TRUE
    /\ UNCHANGED <<hasKey, pc, exitCode, answer, cycleCount, i, attempts,
                   maxRetries, timer, calls, waits, lastError, result, opLog,
                   outcomes, lastReport, staked, unstaked, lastSettled>>
    /\ UNCHANGED <<inflight, lastNote, succeeded, depositsSent>>

\* A handler that exits with the conventional status of an interrupt.
OnSigint_Exit130 ==
    /\ Running /\ pc # "load"
    /\ interrupted' = TRUE
    /\ ProcessExit(130)
    /\ UNCHANGED <<hasKey, pc, answer, cycleCount, i, attempts, maxRetries,
                   timer, calls, waits, lastError, result, opLog, outcomes,
                   lastReport, staked, unstaked, lastSettled>>
    /\ UNCHANGED <<inflight, lastNote, succeeded, depositsSent>>

\* Lines 259-263: the SIGINT handler.  It runs between two turns of the
\* event loop, wherever main is suspended.  The handler is installed by the
\* same synchronous run that loads the module, so no delivery precedes it.
OnSigint ==
    /\ Running /\ pc # "load"
    /\ interrupted' = TRUE
    /\ ProcessExit(0)
    /\ UNCHANGED <<hasKey, pc, answer, cycleCount, i, attempts, maxRetries,
                   timer, calls, waits, lastError, result, opLog, outcomes,
                   lastReport, staked, unstaked, lastSettled>>
    /\ UNCHANGED <<inflight, lastNote, succeeded, depositsSent>>

Next ==
    \/ LoadOk
    \/ LoadThrows
    \/ Answer
    \/ StakePrepFails
    \/ StakeSends
    \/ StakeReceiptFails
    \/ StakeReceiptOk
    \/ StakeBackoffDone
    \/ ActionWaitDone
    \/ UnstakePrepFails
    \/ UnstakeSends
    \/ UnstakeReceiptFails
    \/ UnstakeReceiptOk
    \/ UnstakeBackoffDone
    \/ CycleWaitDone
    \/ OnSigint

Spec == Init /\ [][Next]_vars

\* Everything but the user's two inputs, the answer and the interrupt: the
\* turns the event loop takes by itself once a promise or a timer settles.
Progress ==
    \/ LoadOk
    \/ LoadThrows
    \/ StakePrepFails
    \/ StakeSends
    \/ StakeReceiptFails
    \/ StakeReceiptOk
    \/ StakeBackoffDone
    \/ ActionWaitDone
    \/ UnstakePrepFails
    \/ UnstakeSends
    \/ UnstakeReceiptFails
    \/ UnstakeReceiptOk
    \/ UnstakeBackoffDone
    \/ CycleWaitDone

\* Every transaction, receipt and timer eventually settles.
FairSpec == Spec /\ WF_vars(Progress)

\* --------------------------------------- withRetry called on its own
\* withRetry(operation, maxRetries) for every maxRetries in 0..MaxPolicy and
\* every operation, an operation being the sequence of its attempts' results.

\* What the operation under test may throw.
HarnessErrors == StakePreSendErrors \cup PostSendErrors

RetryInit ==
    /\ hasKey = TRUE
    /\ pc = "t_call"
    /\ exitCode = <<>>
    /\ interrupted = FALSE
    /\ answer = <<>>
    /\ cycleCount = 0
    /\ i = 0
    /\ attempts = 0
    /\ maxRetries \in 0..MaxPolicy
    /\ timer = 0
    /\ calls = 0
    /\ waits = <<>>
    /\ lastError = NoError
    /\ result = NoResult
    /\ opLog = <<>>
    /\ outcomes = <<>>
    /\ lastReport = NoReport
    /\ staked = {}
    /\ unstaked = {}
    /\ lastSettled = NoAttempt
    /\ inflight = {}
    /\ lastNote = NoNote
    /\ succeeded = NoneSucceeded
    /\ depositsSent = 0

\* Lines 121-125: the call; the loop condition, then the first invocation.
RetryCall ==
    /\ pc = "t_call"
    /\ attempts' = 0
    /\ IF RetryLoopGuard(0, maxRetries)
       THEN /\ pc' = "t_op"
            /\ calls' = 1
            /\ inflight' = inflight \cup {Attempt("op", 0, 1)}
            /\ UNCHANGED result
       ELSE /\ pc' = "t_returned"
            /\ result' = [kind |-> "return", error |-> NoError, attempt |-> 0]
            /\ UNCHANGED <<calls, inflight>>
    /\ UNCHANGED <<lastNote, succeeded, depositsSent>>
    /\ UNCHANGED <<hasKey, exitCode, interrupted, answer, cycleCount, i,
                   maxRetries, timer, waits, lastError, opLog, outcomes,
                   lastReport, staked, unstaked, lastSettled>>

\* Lines 126-132: the invocation in flight throws.
RetryOpThrows ==
    /\ pc = "t_op"
    /\ \E m \in HarnessErrors :
          LET e == MkError(m)
              c == RetryCatch(attempts, maxRetries)
          IN  /\ attempts' = c.attempts
              /\ lastError' = e
              /\ opLog' = Append(opLog, [ok |-> FALSE, error |-> e])
              /\ IF c.rethrow
                 THEN /\ pc' = "t_thrown"
                      /\ result' = [kind |-> "throw", error |-> e,
                                    attempt |-> calls]
                      /\ UNCHANGED <<timer, waits, lastNote>>
                 ELSE /\ pc' = "t_backoff"
                      /\ lastNote' = RetryNote(c, maxRetries)
                      /\ timer' = c.delayTime
                      /\ waits' = Append(waits, c.delayTime)
                      /\ UNCHANGED result
    /\ UNCHANGED <<hasKey, exitCode, interrupted, answer, cycleCount, i,
                   maxRetries, calls, outcomes, lastReport, staked, unstaked,
                   lastSettled>>
    /\ inflight' = inflight \ {Attempt("op", 0, calls)}
    /\ UNCHANGED <<succeeded, depositsSent>>

\* Line 125: the invocation in flight returns a value.
RetryOpReturns ==
    /\ pc = "t_op"
    /\ pc' = "t_returned"
    /\ result' = [kind |-> "return", error |-> NoError, attempt |-> calls]
    /\ opLog' = Append(opLog, [ok |-> TRUE, error |-> NoError])
    /\ UNCHANGED <<hasKey, exitCode, interrupted, answer, cycleCount, i,
                   attempts, maxRetries, timer, calls, waits, lastError,
                   outcomes, lastReport, staked, unstaked, lastSettled>>
    /\ inflight' = inflight \ {Attempt("op", 0, calls)}
    /\ UNCHANGED <<lastNote, succeeded, depositsSent>>

\* Lines 132, 123-125: the backoff elapsed.
RetryBackoffDone ==
    /\ pc = "t_backoff"
    /\ timer' = 0
    /\ IF RetryLoopGuard(attempts, maxRetries)
       THEN /\ pc' = "t_op"
            /\ calls' = calls + 1
            /\ inflight' = inflight \cup {Attempt("op", 0, calls + 1)}
            /\ UNCHANGED result
       ELSE /\ pc' = "t_returned"
            /\ result' = [kind |-> "return", error |-> NoError, attempt |-> 0]
            /\ UNCHANGED <<calls, inflight>>
    /\ UNCHANGED <<lastNote, succeeded, depositsSent>>
    /\ UNCHANGED <<hasKey, exitCode, interrupted, answer, cycleCount, i,
                   attempts, maxRetries, waits, lastError, opLog, outcomes,
                   lastReport, staked, unstaked, lastSettled>>

RetryNext ==
    \/ RetryCall
    \/ RetryOpThrows
    \/ RetryOpReturns
    \/ RetryBackoffDone

RetrySpec == RetryInit /\ [][RetryNext]_vars

\* The withRetry call under test has ended.
RetryEnded == pc \in {"t_returned", "t_thrown"}

\* The operation failed on each of its attempts 1..n.
FailedThrough(n) ==
    /\ Len(opLog) >= n
    /\ \A k \in 1..n : ~opLog[k].ok

\* ------------------------------------------------------------ claims

\* C1: for every maxRetries = m >= 1, a withRetry call whose operation failed
\* on every attempt has invoked it exactly m times, has slept exactly m - 1
\* times and is not sleeping, and has thrown the error object raised by
\* attempt m itself.
C1_ExhaustionThrowsLastError ==
    (RetryEnded /\ maxRetries >= 1 /\ FailedThrough(Len(opLog))) =>
        /\ calls = maxRetries
        /\ Len(opLog) = maxRetries
        /\ Len(waits) = maxRetries - 1
        /\ timer = 0
        /\ result.kind = "throw"
        /\ result.error = opLog[maxRetries].error
        /\ result.error.attempt = maxRetries

\* An always-failing operation under maxRetries = 3 whose first and last
\* errors differ has been given up on.
C1_Witness ==
    /\ pc = "t_thrown"
    /\ maxRetries = 3
    /\ FailedThrough(3)
    /\ opLog[1].error.message # opLog[3].error.message
    /\ result.error.message = "Transaction reverted"

\* C2: for every maxRetries = m, an operation that fails on attempts 1..m-1
\* and succeeds on attempt m makes withRetry return the value of attempt m,
\* and the sleep after failed attempt k is always 1000 * 2^k milliseconds, so
\* that run's sleeps are 2000, 4000, ..., 1000 * 2^(m-1).
C2_BackoffSchedule ==
    /\ \A k \in 1..Len(waits) : waits[k] = 1000 * 2^k
    /\ (pc = "t_backoff") => (timer = 1000 * 2^attempts /\ attempts = calls)
    /\ (/\ RetryEnded
        /\ maxRetries >= 1
        /\ Len(opLog) = maxRetries
        /\ FailedThrough(maxRetries - 1)
        /\ opLog[maxRetries].ok) =>
            /\ result.kind = "return"
            /\ result.attempt = maxRetries
            /\ calls = maxRetries
            /\ Len(waits) = maxRetries - 1

\* Under maxRetries = 4 the operation succeeded on its fourth attempt after
\* sleeps of 2, 4 and 8 seconds.
C2_Witness ==
    /\ pc = "t_returned"
    /\ maxRetries = 4
    /\ FailedThrough(3)
    /\ opLog[4].ok
    /\ waits = <<2000, 4000, 8000>>

\* The loop of main has been entered (the prompt was answered).
Answered == pc \notin {"load", "prompt"}

\* main ran to the end of its loop and exited from its finally block.
Completed == pc = "done"

Tags == [k \in 1..Len(outcomes) |-> outcomes[k].tag]

\* C3: a failed cycle never aborts the rest.  While the loop runs, the stake
\* action has been invoked for every cycle up to the current one, whatever
\* the earlier cycles' outcomes; a run that completes has invoked it for all
\* of 1..cycleCount; and a completed 3-cycle run whose second cycle died in
\* its stake action (its unstake never invoked) has reported cycle 2 Failed
\* and still run cycle 3.
C3_FailureDoesNotAbort ==
    /\ (Answered /\ cycleCount >= 1 /\ ~Completed) =>
          (i \in 1..cycleCount /\ staked = 1..i)
    /\ (Completed /\ cycleCount >= 1) =>
          (staked = 1..cycleCount /\ Len(outcomes) = cycleCount)
    /\ (Completed /\ cycleCount = 3 /\ 2 \notin unstaked) =>
          (outcomes[2].tag = "Failed" /\ 3 \in staked /\ Len(outcomes) = 3)

\* The spec's example: three cycles, the second one's stake exhausting its
\* retries, the others succeeding.
C3_Witness ==
    /\ Completed
    /\ cycleCount = 3
    /\ unstaked = {1, 3}
    /\ lastReport.cycle = 2
    /\ Tags = <<"Success", "Failed", "Success">>

\* A step that starts an attempt of the stake (unstake) action.
StartsStake == pc' = "stake_prep" /\ pc # "stake_prep"

StartsUnstake == pc' = "unstake_prep" /\ pc # "unstake_prep"

\* C4: the first unstake attempt of a cycle starts only once a stake attempt
\* of that same cycle has completed (successfully, and the delay after it has
\* been slept), and an attempt of either action of cycle c starts only when
\* the outcomes of cycles 1..c-1, and no other, have been recorded.
C4_Ordering ==
    [][/\ (StartsUnstake /\ calls' = 1) =>
             /\ pc = "action_wait"
             /\ i' = i
             /\ lastSettled = [action |-> "stake", cycle |-> i, ok |-> TRUE]
       /\ (StartsStake \/ StartsUnstake) =>
             /\ Len(outcomes') = i' - 1
             /\ \A k \in 1..(i' - 1) : outcomes'[k].cycle = k
       /\ unstaked' \subseteq staked']_vars

\* Cycle 2's unstake is in flight after cycle 1 failed.
C4_Witness ==
    /\ pc = "unstake_sent"
    /\ i = 2
    /\ Tags = <<"Failed">>
    /\ lastSettled = [action |-> "stake", cycle |-> 2, ok |-> TRUE]

\* C5: once the loop is entered with cycleCount = N >= 1, the process
\* eventually exits, and unless it was interrupted it has by then printed
\* exactly one report per cycle, Success or Failed, for cycles 1, 2, ..., N
\* in that order.
C5_OneOutcomePerCycle ==
    (Answered /\ cycleCount >= 1) ~>
        (/\ exitCode # <<>>
         /\ ~interrupted =>
               /\ Completed
               /\ Len(outcomes) = cycleCount
               /\ \A k \in 1..cycleCount :
                     /\ outcomes[k].cycle = k
                     /\ outcomes[k].tag \in {"Success", "Failed"})

C5_Witness ==
    /\ Completed
    /\ ~interrupted
    /\ cycleCount = 4
    /\ Tags = <<"Failed", "Success", "Failed", "Success">>

\* C6: once the interrupt handler has run, no action attempt and no wait is
\* started and no outcome is recorded; so an interrupt that arrives during
\* the wait before cycle 3 of a 5-cycle run leaves the outcomes of cycles 1
\* and 2 and cycle 3's stake never invoked.
C6_InterruptStops ==
    /\ [][interrupted' =>
             UNCHANGED <<pc, i, timer, calls, attempts, waits, outcomes,
                         lastReport, staked, unstaked, lastSettled>>]_vars
    /\ []((interrupted /\ pc = "cycle_wait" /\ i = 2) =>
             (Len(outcomes) = 2 /\ 3 \notin staked /\ exitCode = <<0>>))

C6_Witness ==
    /\ interrupted
    /\ cycleCount = 5
    /\ pc = "cycle_wait"
    /\ i = 2
    /\ Len(outcomes) = 2

\* C7: the process never exits while a transaction that was sent still
\* awaits its receipt.
C7_InFlightSettles ==
    (exitCode # <<>>) => pc \notin {"stake_sent", "unstake_sent"}

\* The value of a string of one or two decimal digits.
Decimal(s) ==
    IF Len(s) = 1 THEN DigitVal(s[1])
    ELSE 10 * DigitVal(s[1]) + DigitVal(s[2])

AllDigits(s) == s # <<>> /\ \A k \in 1..Len(s) : IsDigit(s[k])

\* The answer is a minus sign followed by a digit other than 0.
NegativeAnswer ==
    /\ Len(answer) = 2
    /\ answer[1] = "-"
    /\ IsDigit(answer[2])
    /\ answer[2] # "0"

\* C8 as stated: an answer that is 0 or negative yields no outcome and no
\* invocation of either action.
C8_NonPositiveRunsNothing ==
    (Answered /\ (NegativeAnswer \/ answer \in {<<"0">>, <<"-", "0">>})) =>
        (outcomes = <<>> /\ staked = {} /\ unstaked = {})

\* C8 as amended: a negative answer yields a negative cycleCount, no outcome,
\* no invocation of either action and a normal exit; an answer of 0 is taken
\* as 1 and cycle 1's stake is invoked.
C8_NegativeRunsNothing ==
    /\ (Answered /\ NegativeAnswer) =>
          /\ cycleCount = 0 - DigitVal(answer[2])
          /\ outcomes = <<>>
          /\ staked = {}
          /\ unstaked = {}
          /\ Completed
          /\ exitCode = <<0>>
    /\ (Answered /\ answer \in {<<"0">>, <<"-", "0">>}) =>
          (cycleCount = 1 /\ 1 \in staked)

C8_Witness ==
    /\ Answered
    /\ answer = <<"-", "2">>
    /\ exitCode = <<0>>

LeadingInteger ==
    LET neg  == answer # <<>> /\ answer[1] = "-"
        body == IF neg THEN Tail(answer) ELSE answer
        mag  == IF AllDigits(body) THEN Decimal(body)
                ELSE IF body # <<>> /\ IsDigit(body[1]) THEN DigitVal(body[1])
                ELSE 0
    IN  [some |-> body # <<>> /\ IsDigit(body[1]),
         val  |-> IF neg THEN 0 - mag ELSE mag]

\* The cycles a completed run has run.
CyclesRun == IF cycleCount >= 1 THEN cycleCount ELSE 0

C10_AlwaysExitsZero ==
    (exitCode # <<>>) => exitCode = <<0>>

\* C10 as amended: the process exits with code 0 on completion of the loop and
\* on SIGINT; with PRIVATE_KEY missing the module throws while loading,
\* before main and outside its try, and the process exits with code 1.
C10_ExitCodes ==
    (exitCode # <<>>) =>
        /\ (Completed \/ interrupted) => (hasKey /\ exitCode = <<0>>)
        /\ ~hasKey => (exitCode = <<1>> /\ pc = "load" /\ ~interrupted)
        /\ hasKey => (Completed \/ interrupted)

C10_Witness ==
    /\ exitCode = <<0>>
    /\ interrupted
    /\ pc = "stake_backoff"

\* C11: without PRIVATE_KEY the program never leaves the loading of its
\* module: the prompt is not shown and not answered, no attempt of either
\* action is started, nothing is retried or recorded, and once it has failed
\* the error has been printed and the process has exited.
C11_MissingKeyFailsFast ==
    ~hasKey =>
        /\ pc = "load"
        /\ answer = <<>>
        /\ staked = {} /\ unstaked = {} /\ inflight = {}
        /\ calls = 0 /\ attempts = 0 /\ waits = <<>> /\ timer = 0
        /\ outcomes = <<>>
        /\ ~interrupted
        /\ (exitCode = <<>>) <=> (lastNote = NoNote)
        /\ (exitCode # <<>>) => lastNote.kind = "uncaught"

C11_Witness ==
    /\ ~hasKey
    /\ exitCode # <<>>
    /\ lastNote.kind = "uncaught"
    /\ pc = "load"

\* The program is suspended in one of main's two sampled delays.
InSampledWait == pc \in {"action_wait", "cycle_wait"}

\* C12 as stated, with the spec's range: every delay waited between actions
\* or between cycles is within 60000..120000 ms.
C12_DelayWithinSpecRange ==
    InSampledWait => (60000 <= timer /\ timer <= 120000)

\* C12 as amended: every such delay is an integer of 60000..180000 ms, the
\* range getRandomDelay is configured with.
C12_DelayWithinConfiguredRange ==
    InSampledWait => (timer \in Int /\ 60000 <= timer /\ timer <= 180000)

\* The largest delay is waited between two cycles.
C12_Witness ==
    /\ pc = "cycle_wait"
    /\ timer = 180000
    /\ Running

\* A step that records a cycle's outcome.
RecordsOutcome == Len(outcomes') = Len(outcomes) + 1

\* C13: the delay between the actions is entered only by a successful stake
\* and left only into the first unstake attempt; every step that records the
\* outcome of a cycle i < cycleCount, Success or Failed, enters the
\* inter-cycle delay, which is left only into cycle i + 1, and the step that
\* records the last cycle's outcome starts no delay.
C13_WaitPlacement ==
    [][/\ (pc' = "action_wait" /\ pc # "action_wait") =>
             /\ pc = "stake_sent"
             /\ lastSettled' = [action |-> "stake", cycle |-> i, ok |-> TRUE]
             /\ timer' >= 60000
       /\ (pc = "action_wait" /\ pc' # pc) =>
             (pc' = "unstake_prep" /\ calls' = 1 /\ timer' = 0)
       /\ (StartsUnstake /\ calls' = 1) => pc = "action_wait"
       /\ RecordsOutcome =>
             /\ outcomes'[Len(outcomes')].cycle = i
             /\ IF i < cycleCount
                THEN pc' = "cycle_wait" /\ timer' >= 60000
                ELSE pc' = "done" /\ timer' = 0
       /\ (pc' = "cycle_wait" /\ pc # "cycle_wait") => RecordsOutcome
       /\ (pc = "cycle_wait" /\ pc' # pc) =>
             (pc' = "stake_prep" /\ i' = i + 1 /\ timer' = 0)
       /\ (Answered /\ i' # i) => pc = "cycle_wait"]_vars

\* The delay before cycle 3, after a successful and a failed cycle.
C13_Witness ==
    /\ pc = "cycle_wait"
    /\ cycleCount = 3
    /\ Tags = <<"Success", "Failed">>
    /\ timer >= 60000

\* A step in which an attempt fails: withRetry's catch counts it.
AttemptFails == attempts' = attempts + 1

\* The program is suspended in a backoff wait of withRetry.
InBackoff == pc \in {"stake_backoff", "unstake_backoff"}

\* An attempt of an action is running.
InAttempt == pc \in {"stake_prep", "stake_sent", "unstake_prep", "unstake_sent"}

\* C14: the step in which an attempt fails starts no further attempt and
\* either prints the retry notification (number of the failed attempt, total,
\* seconds of the wait entered by the same step) or reports the cycle as
\* failed with its number and the reason of the failure.
C14_NoSilentFailure ==
    [][AttemptFails =>
         /\ calls' = calls
         /\ inflight' = {}
         /\ lastError'.message # ""
         /\ \/ /\ pc' \in {"stake_backoff", "unstake_backoff"}
               /\ timer' > 0
               /\ lastNote' = [kind |-> "retry", attempt |-> attempts',
                               total |-> maxRetries,
                               seconds |-> timer' \div 1000]
               /\ outcomes' = outcomes
            \/ /\ RecordsOutcome
               /\ outcomes'[Len(outcomes')] = [cycle |-> i, tag |-> "Failed"]
               /\ lastReport' = [cycle |-> i, reason |-> lastError'.message]
               /\ pc' \in {"cycle_wait", "done"}]_vars

\* Cycle 1 was reported failed and in cycle 2 the second failure of unstake
\* was notified.
C14_Witness ==
    /\ pc = "unstake_backoff"
    /\ i = 2
    /\ lastReport.cycle = 1 /\ lastReport.reason # ""
    /\ lastNote = [kind |-> "retry", attempt |-> 2, total |-> 3, seconds |-> 4]

\* C15: at most one attempt is in flight, and none while the program sleeps
\* in a backoff, between the actions or between cycles; a step starts at most
\* one attempt, with nothing in flight before it, and attempt k + 1 of an
\* action is started only by the end of the backoff that followed the
\* failure of attempt k.
C15_SingleThread ==
    /\ [](/\ Cardinality(inflight) <= 1
          /\ (InBackoff \/ InSampledWait) => inflight = {}
          /\ inflight # {} => InAttempt)
    /\ [][/\ calls' # calls => calls' \in {1, calls + 1}
          /\ inflight' # inflight =>
                \/ inflight' = {}
                \/ inflight = {} /\ Cardinality(inflight') = 1
          /\ (calls' = calls + 1 /\ calls >= 1) =>
                /\ InBackoff /\ timer > 0
                /\ ~lastSettled.ok /\ lastSettled.cycle = i
                /\ lastSettled.action =
                      (IF pc = "stake_backoff" THEN "stake" ELSE "unstake")
                /\ inflight = {}
                /\ inflight' = {Attempt(lastSettled.action, i, calls + 1)}]_vars

\* The third attempt of unstake is the only one in flight.
C15_Witness ==
    /\ inflight = {Attempt("unstake", 1, 3)}
    /\ pc = "unstake_sent"
    /\ Running

\* C16: one call of withRetry invokes its action at most 3 times; every cycle
\* run calls stake at least once and each action's withRetry at most once;
\* when stake is exhausted the cycle ends at once, without the wait between
\* the actions and without unstake. Attempts are therefore named by (action,
\* cycle in 1..cycleCount, number in 1..3), each started at most once.
C16_AttemptBounds ==
    /\ [](/\ calls <= 3
          /\ \A a \in inflight :
                a.cycle = i /\ a.cycle <= cycleCount /\ a.attempt = calls
                /\ 1 <= a.attempt /\ a.attempt <= 3
          /\ (Answered /\ i <= cycleCount) => i \in staked
          /\ (Answered /\ i \in unstaked) => succeeded.stake = 1
          /\ unstaked \subseteq staked
          /\ \A c \in staked : 1 <= c /\ c <= i /\ c <= cycleCount)
    /\ [][/\ (StartsStake /\ calls' = 1) => i' \notin staked
          /\ (StartsUnstake /\ calls' = 1) => i \notin unstaked
          /\ (pc \in {"stake_prep", "stake_sent"} /\ RecordsOutcome) =>
                /\ calls = 3
                /\ i \notin unstaked'
                /\ pc' \in {"cycle_wait", "done"}]_vars

\* Stake failed three times in cycle 1, which ended without unstake, and
\* cycle 2 is at its third unstake attempt.
C16_Witness ==
    /\ Tags = <<"Failed">>
    /\ 1 \notin unstaked
    /\ i = 2 /\ pc = "unstake_prep" /\ calls = 3

\* A step in which an attempt of the action succeeds.
AttemptSucceeds(action) == succeeded'[action] = succeeded[action] + 1

\* C17: the step in which an attempt succeeds ends the withRetry call: it
\* returns that attempt's value, starts no attempt of the same action, and
\* every earlier attempt of the call failed; a further attempt of a call is
\* started only after a failure; no action succeeds twice in a cycle, and a
\* cycle recorded as Success had exactly one successful attempt of each.
C17_SuccessIsLast ==
    /\ [](succeeded.stake <= 1 /\ succeeded.unstake <= 1)
    /\ [][/\ \A action \in {"stake", "unstake"} :
                AttemptSucceeds(action) =>
                   /\ succeeded[action] = 0
                   /\ lastSettled' = [action |-> action, cycle |-> i,
                                      ok |-> TRUE]
                   /\ result' = [kind |-> "return", error |-> NoError,
                                 attempt |-> calls]
                   /\ attempts = calls - 1
                   /\ calls' = calls /\ inflight' = {}
                   /\ pc' \in (IF action = "stake"
                               THEN {"action_wait"}
                               ELSE {"cycle_wait", "done"})
          /\ (calls' = calls + 1 /\ calls >= 1) =>
                (~lastSettled.ok /\ result.kind = "pending")
          /\ (RecordsOutcome /\ outcomes'[Len(outcomes')].tag = "Success") =>
                succeeded' = [stake |-> 1, unstake |-> 1]]_vars

\* A cycle succeeded whose unstake succeeded at its third attempt.
C17_Witness ==
    /\ Tags = <<"Success">>
    /\ succeeded = [stake |-> 1, unstake |-> 1]
    /\ result.kind = "return" /\ result.attempt = 3
    /\ attempts = 2

\* C18: the stake action of a cycle has sent at most one deposit transaction.
C18_OneDepositPerCycle ==
    depositsSent <= 1

====
